---------------------------- MODULE Spec2Model ----------------------------
(***************************************************************************)
(* A model of the HLTV player-statistics scraper:                          *)
(*   src/src/utils/exponential_backoff.py  the retry decorator             *)
(*   src/src/player.py                     HLTV_Player_Stat_Scraper        *)
(*   src/src/configs.py                    Filter and its query string     *)
(*                                                                         *)
(* Python values are tagged records: None is [t |-> "None"], a list is     *)
(* [t |-> "list", v |-> <<...>>], a str is [t |-> "str", v |-> "..."].     *)
(* Durations are in tenths of a second, so that the decorator's default    *)
(* exponential_wait_time = 5.5 is the integer 55.                          *)
(***************************************************************************)
EXTENDS Integers, Sequences, FiniteSets, TLC

VARIABLES
    \* ---- one call through exponential_backoff's wrapper ----
    func,                   \* name of the wrapped function being called
    max_retries,            \* decorator argument
    exponential_wait_time,  \* decorator argument
    logger,                 \* TRUE when logger_getter yields a logger
    retry_count,            \* the wrapper's local retry_count
    wstate,                 \* "idle" | "loop" | "returned" | "raised"
    ret,                    \* value the wrapper returned / exception it let through
    outcomes,               \* outcome of each invocation of func in this call
    sleeps,                 \* argument of each time.sleep of this call
    log,                    \* entries written to the logger, oldest first
    \* ---- the site ----
    totalRows,              \* rows of the player's (filtered) match history
    faults,                 \* failures injected so far
    searchBlocked,          \* TRUE when the site's search pages show no result row
    \* ---- HLTV_Player_Stat_Scraper.get_match_urls ----
    gpc,                    \* "off" | "fetch" | "returned" | "raised"
    offset,                 \* local offset
    matches,                \* local matches (the accumulator)
    this_page_matches,      \* local of the latest get_matches_from_url invocation
    discarded,              \* this_page_matches of the latest invocation that raised
                            \* in the current page fetch
    fetchLog,               \* offset of every invocation of get_matches_from_url
    pageSizes,              \* len(result) of every finished wrapped call, -1 for None
    crawlRet,               \* what get_match_urls returned or raised
    \* ---- HLTV_Player_Stat_Scraper.get_basic_stats ----
    statPage,               \* text of the element of each stat on the stats page
    unresolved,             \* locators that did not resolve at the latest invocation
    \* ---- Filter ----
    now,                    \* the date datetime.now() falls on, as a proleptic ordinal
    fpc,                    \* "off" | "new" | "built" | "formatted"
    filter,                 \* the attributes of the Filter object
    query,                  \* the dict built by __str__, as its (key, value) items
    query_string,           \* the value __str__ returned
    pads_year,              \* TRUE when the platform's strftime pads %Y to 4 digits
    fargs,                  \* start_date and end_date passed to Filter(...), and the
                            \* dates of its two datetime.now() calls
    \* ---- a scraper object and the code that uses it ----
    mpc,                    \* position of the code that uses the scraper
    acquired,               \* driver handles the scraper has started (uc.Chrome)
    released,               \* driver handles that have been released (quit)
    player_name,            \* self.player_name
    player_id,              \* self.player_id
    searchArg,              \* argument of the latest search_player call
    queried,                \* one record per invocation of search_player's body
    calls,                  \* search_player calls made so far
    player_url              \* local player_url of main()

wrapperVars == <<func, max_retries, exponential_wait_time, logger, retry_count,
                 wstate, ret, outcomes, sleeps, log>>

siteVars == <<totalRows, faults, searchBlocked>>

crawlVars == <<gpc, offset, matches, this_page_matches, discarded, fetchLog, pageSizes,
               crawlRet>>

statsVars == <<statPage, unresolved>>

filterVars == <<now, fpc, filter, query, query_string, pads_year, fargs>>

runVars == <<mpc, acquired, released, player_name, player_id, searchArg, queried,
             calls, player_url>>

vars == <<wrapperVars, siteVars, crawlVars, statsVars, filterVars, runVars>>

(***************************************************************************)
(* Bounds of the model.                                                    *)
(***************************************************************************)
MaxRetriesArg == 5      \* largest max_retries given to the decorator in SpecRetry
MaxWaitArg == 2         \* largest exponential_wait_time in SpecRetry
MaxTotal == 247         \* largest match history of SpecCrawl
MaxFaults == 6          \* most failures injected in one run of SpecCrawl
MaxFaultRow == 2        \* a failure strikes at navigation (0) or at row 1..MaxFaultRow
MaxUnresolved == 2      \* most locators failing together, short of all nine
ClockStart == 738946    \* the date SpecFilter starts on: 2024-03-01
MaxTicks == 2           \* most midnights that pass in SpecFilter
MaxMultiline == 1       \* most stat elements of a page whose text has a second line
MaxSearchCalls == 2     \* most search_player calls made on one scraper in SpecSearch
MaxSearchFaults == 1    \* most failures of driver.get injected into search_player

(***************************************************************************)
(* Constants of the program.                                               *)
(***************************************************************************)
ScraperMaxRetries == 5  \* max_retries=5 of the three decorated functions
ScraperWaitTime == 55   \* exponential_wait_time=5.5, in tenths of a second
RowProbeLimit == 100    \* range(1, 101)
FullPage == 100         \* len(result) < 100
OffsetStep == 100       \* offset += 100
SitePageSize == 100     \* rows the site shows on one page of the match table
DateMin == 1            \* datetime.min, 0001-01-01
DateMax == 3652059      \* datetime.max, 9999-12-31

(***************************************************************************)
(* Python values.                                                          *)
(***************************************************************************)
None == [t |-> "None"]
Str(s) == [t |-> "str", v |-> s]
List(s) == [t |-> "list", v |-> s]

\* Exceptions a wrapped function can end with.  The first group derives from
\* Exception; KeyboardInterrupt and SystemExit derive from BaseException only.
ExceptionClasses == {"WebDriverException", "NoSuchElementException", "TypeError",
                     "KeyError", "ValueError"}
BaseOnlyClasses == {"KeyboardInterrupt", "SystemExit"}

\* One invocation of func ended by returning value val.
Returned(val) == [kind |-> "return", val |-> val]
\* One invocation of func ended by raising an exception of class exc.
Raised(exc) == [kind |-> "raise", val |-> Str(exc)]

(***************************************************************************)
(* exponential_backoff.wrapper                                             *)
(***************************************************************************)
\* Faulty variant: `while True`.
LoopTestAlways(rc, mr) == TRUE

\* `while retry_count < max_retries`  (LoopTestOffByOne: the faulty `<=`)
LoopTestOffByOne(rc, mr) == rc <= mr
LoopTest(rc, mr) == rc < mr

\* `except Exception as e`  (CatchesEverything: a bare `except:`)
CatchesEverything(exc) == TRUE
Catches(exc) == exc \in ExceptionClasses

\* `exponential_wait_time * (2 ** retry_count)`  (SleepTimeLinear: a linear wait)
SleepTimeLinear(w, rc) == w * (rc + 1)
SleepTime(w, rc) == w * (2 ^ rc)

\* logger.warning / logger.error / logger.info, skipped when logger is None
Emit(entries) == IF logger THEN log \o entries ELSE log

WarningEntries == << [level |-> "warning", msg |-> "An error occurred"],
                     [level |-> "warning", msg |-> "Retrying"] >>

EscalationEntries ==
    << [level |-> "error", msg |-> "Max retries reached"],
       [level |-> "error", msg |-> "Cloudflare Turnstile"],
       [level |-> "error", msg |-> "manual intervention"],
       [level |-> "error", msg |-> "proxy and VPN"],
       [level |-> "error", msg |-> "turn it off"] >>

\* Faulty variant: the count and the sleeps of the previous call are kept.
EnterWrapperKeepsCount(f, mr, w) ==
    /\ func' = f
    /\ max_retries' = mr
    /\ exponential_wait_time' = w
    /\ retry_count' = retry_count
    /\ wstate' = "loop"
    /\ ret' = None
    /\ outcomes' = << >>
    /\ sleeps' = sleeps

\* The wrapper is entered: retry_count = 0, nothing invoked yet.
EnterWrapper(f, mr, w) ==
    /\ func' = f
    /\ max_retries' = mr
    /\ exponential_wait_time' = w
    /\ retry_count' = 0
    /\ wstate' = "loop"
    /\ ret' = None
    /\ outcomes' = << >>
    /\ sleeps' = << >>

\* The loop body can run: the wrapper is about to invoke func once more.
CanInvoke == wstate = "loop" /\ LoopTest(retry_count, max_retries)

\* Faulty variant: the sleep and the count happen on a successful pass as well.
InvokeReturnsThenSleeps(val, funcLog) ==
    /\ wstate = "loop" /\ LoopTest(retry_count, max_retries)
    /\ outcomes' = Append(outcomes, Returned(val))
    /\ ret' = val
    /\ wstate' = "returned"
    /\ log' = log \o funcLog
    /\ sleeps' = Append(sleeps, SleepTime(exponential_wait_time, retry_count))
    /\ retry_count' = retry_count + 1
    /\ UNCHANGED <<func, max_retries, exponential_wait_time, logger>>

\* One pass of the loop body whose invocation of func returned val, the log
\* entries func wrote being funcLog: `return func(*args, **kwargs)`.
InvokeReturns(val, funcLog) ==
    /\ CanInvoke
    /\ outcomes' = Append(outcomes, Returned(val))
    /\ ret' = val
    /\ wstate' = "returned"
    /\ log' = log \o funcLog
    /\ UNCHANGED <<func, max_retries, exponential_wait_time, logger,
                   retry_count, sleeps>>

\* One pass of the loop body whose invocation of func raised exc.  An
\* Exception is logged, slept on and counted; anything else leaves the
\* wrapper through the try statement.
InvokeRaises(exc, funcLog) ==
    /\ CanInvoke
    /\ outcomes' = Append(outcomes, Raised(exc))
    /\ IF Catches(exc)
       THEN /\ log' = IF logger THEN log \o funcLog \o WarningEntries
                                ELSE log \o funcLog
            /\ sleeps' = Append(sleeps, SleepTime(exponential_wait_time, retry_count))
            /\ retry_count' = retry_count + 1
            /\ UNCHANGED <<wstate, ret>>
       ELSE /\ log' = log \o funcLog
            /\ wstate' = "raised"
            /\ ret' = Str(exc)
            /\ UNCHANGED <<sleeps, retry_count>>
    /\ UNCHANGED <<func, max_retries, exponential_wait_time, logger>>

\* The loop test fails: the escalation is logged and None returned.
Exhaust ==
    /\ wstate = "loop"
    /\ ~LoopTest(retry_count, max_retries)
    /\ log' = Emit(EscalationEntries)
    /\ ret' = None
    /\ wstate' = "returned"
    /\ UNCHANGED <<func, max_retries, exponential_wait_time, logger,
                   retry_count, outcomes, sleeps>>

(***************************************************************************)
(* SpecRetry: the decorator around an arbitrary operation.                 *)
(***************************************************************************)
OpResults == {Str("r1"), Str("r2"), None}
OpExceptions == {"WebDriverException", "KeyboardInterrupt"}

\* Values of the scraper's and the site's variables while they play no part.
ScraperOff ==
    /\ totalRows = 0
    /\ faults = 0
    /\ searchBlocked = FALSE
    /\ gpc = "off"
    /\ offset = 0
    /\ matches = << >>
    /\ this_page_matches = << >>
    /\ discarded = << >>
    /\ fetchLog = << >>
    /\ pageSizes = << >>
    /\ crawlRet = None

StatsOff ==
    /\ statPage = << >>
    /\ unresolved = {}

FilterOff ==
    /\ now = 0
    /\ fpc = "off"
    /\ filter = None
    /\ query = << >>
    /\ query_string = ""
    /\ pads_year = TRUE
    /\ fargs = None

RunOff ==
    /\ mpc = "off"
    /\ acquired = 0
    /\ released = 0
    /\ player_name = None
    /\ player_id = None
    /\ searchArg = None
    /\ queried = << >>
    /\ calls = 0
    /\ player_url = None

InitRetry ==
    /\ RunOff
    /\ StatsOff
    /\ FilterOff
    /\ ScraperOff
    /\ func = "op"
    /\ max_retries \in 0..MaxRetriesArg
    /\ exponential_wait_time \in 1..MaxWaitArg
    /\ logger \in BOOLEAN
    /\ retry_count = 0
    /\ wstate = "loop"
    /\ ret = None
    /\ outcomes = << >>
    /\ sleeps = << >>
    /\ log = << >>

OpReturns ==
    /\ \E val \in OpResults : InvokeReturns(val, << >>)
    /\ UNCHANGED <<siteVars, crawlVars, statsVars, filterVars, runVars>>

OpRaises ==
    /\ \E exc \in OpExceptions : InvokeRaises(exc, << >>)
    /\ UNCHANGED <<siteVars, crawlVars, statsVars, filterVars, runVars>>

OpExhausts ==
    /\ Exhaust
    /\ UNCHANGED <<siteVars, crawlVars, statsVars, filterVars, runVars>>

NextRetry == OpReturns \/ OpRaises \/ OpExhausts

SpecRetry == InitRetry /\ [][NextRetry]_vars

(***************************************************************************)
(* HLTV_Player_Stat_Scraper.get_match_urls                                 *)
(* A match reference (the href of a row's link) is the row's number in the *)
(* history, 1..totalRows; the page at offset o shows rows o+1 .. o+100.    *)
(***************************************************************************)
\* `tr:nth-child(i) > td:nth-child(1) > a` resolves on the page at offset off.
RowResolves(off, i) == i <= SitePageSize /\ off + i <= totalRows

\* The least member of a non-empty set of integers.
Least(S) == CHOOSE i \in S : \A j \in S : i <= j

\* Faulty variant: a row that does not resolve is kept as a null reference (0)
\* instead of ending the page.
ProbeRowsKeepsMissing(off, faultRow, exc) ==
    LET stop == Least({i \in 1..(RowProbeLimit + 1) :
                          i = RowProbeLimit + 1 \/ i = faultRow})
        rows == [k \in 1..(stop - 1) |-> IF RowResolves(off, k) THEN off + k ELSE 0]
    IN  IF stop = faultRow
        THEN [kind |-> "raise", exc |-> exc, rows |-> rows]
        ELSE [kind |-> "return", exc |-> "", rows |-> rows]

\* Faulty variant: the probing starts at position 2.
ProbeRowsFromSecond(off, faultRow, exc) ==
    LET stop == Least({i \in 2..(RowProbeLimit + 1) :
                          \/ i = RowProbeLimit + 1
                          \/ i = faultRow
                          \/ ~RowResolves(off, i)})
        rows == [k \in 1..(stop - 2) |-> off + k + 1]
    IN  IF stop = faultRow
        THEN [kind |-> "raise", exc |-> exc, rows |-> rows]
        ELSE [kind |-> "return", exc |-> "", rows |-> rows]

\* `for i in range(1, 101)`: positions are probed in order; a position that
\* resolves is appended to this_page_matches, the first
\* NoSuchElementException breaks, and any other exception (the one injected
\* at faultRow) leaves the function.  stop is the position at which the
\* loop ends: the first one that raises, or 101 when none does.
ProbeRows(off, faultRow, exc) ==
    LET stop == Least({i \in 1..(RowProbeLimit + 1) :
                          \/ i = RowProbeLimit + 1
                          \/ i = faultRow
                          \/ ~RowResolves(off, i)})
        rows == [k \in 1..(stop - 1) |-> off + k]
    IN  IF stop = faultRow
        THEN [kind |-> "raise", exc |-> exc, rows |-> rows]
        ELSE [kind |-> "return", exc |-> "", rows |-> rows]

\* One invocation of get_matches_from_url(scraper_instance, off).  faultRow
\* is -1 (nothing fails), 0 (driver.get or the lookup of the table raises
\* exc) or i >= 1 (the probe of row i raises exc).
GetMatchesFromUrl(off, faultRow, exc) ==
    IF faultRow = 0
    THEN [kind |-> "raise", exc |-> exc, rows |-> << >>]
    ELSE ProbeRows(off, faultRow, exc)

InfoEntry(m) == [level |-> "info", msg |-> m]

\* `(result := get_matches_from_url(self, offset)) != []`
WhileTest(result) == result # List(<< >>)

\* `len(result) < 100`  (ShortPageInclusive: the faulty `<=`;
\* ShortPageNever: the test left out)
ShortPageNever(result) == FALSE
ShortPageInclusive(result) == Len(result.v) <= FullPage
ShortPage(result) == Len(result.v) < FullPage

\* `offset += 100`  (NextOffsetOffByOne: the faulty 101)
NextOffsetOffByOne(off) == off + OffsetStep + 1
NextOffset(off) == off + OffsetStep

\* An invocation of get_matches_from_url returns its page.
FetchReturns ==
    /\ gpc = "fetch"
    /\ LET o == GetMatchesFromUrl(offset, -1, "")
       IN  /\ o.kind = "return"
           /\ InvokeReturns(List(o.rows), <<InfoEntry("Matches in sub-pages")>>)
           /\ this_page_matches' = o.rows
           /\ discarded' = discarded
    /\ fetchLog' = Append(fetchLog, offset)
    /\ UNCHANGED <<siteVars, gpc, offset, matches, pageSizes, crawlRet, statsVars, filterVars, runVars>>

\* What an invocation of get_matches_from_url may raise.  A
\* NoSuchElementException comes from the lookup of the table (line 209: the
\* results container is missing); the one of a row is caught at line 216.
\* The model lets the container be missing at the first attempt of a fetch.
FetchExceptions == {"WebDriverException", "KeyboardInterrupt", "NoSuchElementException"}

\* Faulty variant: the rows read before the failure are put in the accumulator.
FetchRaisesKeepsRows ==
    /\ gpc = "fetch"
    /\ faults < MaxFaults
    /\ \E faultRow \in 0..MaxFaultRow, exc \in FetchExceptions :
         LET o == GetMatchesFromUrl(offset, faultRow, exc)
         IN  /\ o.kind = "raise"
             /\ exc = "NoSuchElementException" => (faultRow = 0 /\ retry_count = 0)
             /\ InvokeRaises(exc, << >>)
             /\ this_page_matches' = o.rows
             /\ discarded' = o.rows
             /\ matches' = matches \o o.rows
             /\ gpc' = IF Catches(exc) THEN gpc ELSE "raised"
             /\ crawlRet' = IF Catches(exc) THEN crawlRet ELSE Str(exc)
    /\ fetchLog' = Append(fetchLog, offset)
    /\ faults' = faults + 1
    /\ UNCHANGED <<totalRows, searchBlocked, offset, pageSizes, statsVars, filterVars,
                   runVars>>

\* An invocation of get_matches_from_url raises: at navigation, at the
\* lookup of the table, or while a row is probed.
FetchRaises ==
    /\ gpc = "fetch"
    /\ faults < MaxFaults
    /\ \E faultRow \in 0..MaxFaultRow, exc \in FetchExceptions :
         LET o == GetMatchesFromUrl(offset, faultRow, exc)
         IN  /\ o.kind = "raise"
             /\ exc = "NoSuchElementException" => (faultRow = 0 /\ retry_count = 0)
             /\ InvokeRaises(exc, << >>)
             /\ this_page_matches' = o.rows
             /\ discarded' = o.rows
             /\ gpc' = IF Catches(exc) THEN gpc ELSE "raised"
             /\ crawlRet' = IF Catches(exc) THEN crawlRet ELSE Str(exc)
    /\ fetchLog' = Append(fetchLog, offset)
    /\ faults' = faults + 1
    /\ UNCHANGED <<totalRows, searchBlocked, offset, matches, pageSizes, statsVars,
                   filterVars, runVars>>

\* The wrapped call runs out of retries.
FetchExhausts ==
    /\ gpc = "fetch"
    /\ Exhaust
    /\ UNCHANGED <<siteVars, crawlVars, statsVars, filterVars, runVars>>

\* The while statement of get_match_urls, from the moment the wrapped call
\* has returned result: the test, the body, and either the return of matches
\* or the next wrapped call.
LoopStep ==
    /\ gpc = "fetch"
    /\ wstate = "returned"
    /\ pageSizes' = Append(pageSizes, IF ret.t = "list" THEN Len(ret.v) ELSE -1)
    /\ IF ~WhileTest(ret)
       THEN \* the loop ends: return matches
            /\ gpc' = "returned"
            /\ crawlRet' = List(matches)
            /\ log' = Append(log, InfoEntry("Total matches"))
            /\ UNCHANGED <<func, max_retries, exponential_wait_time, retry_count,
                           wstate, ret, outcomes, sleeps, offset, matches, discarded>>
       ELSE IF ret.t # "list"
       THEN \* matches.extend(None): TypeError, 'NoneType' object is not iterable
            /\ gpc' = "raised"
            /\ crawlRet' = Str("TypeError")
            /\ UNCHANGED <<func, max_retries, exponential_wait_time, retry_count,
                           wstate, ret, outcomes, sleeps, offset, matches, log,
                           discarded>>
       ELSE /\ matches' = matches \o ret.v
            /\ IF ShortPage(ret)
               THEN \* break, then return matches
                    /\ gpc' = "returned"
                    /\ crawlRet' = List(matches')
                    /\ log' = Append(log, InfoEntry("Total matches"))
                    /\ UNCHANGED <<func, max_retries, exponential_wait_time,
                                   retry_count, wstate, ret, outcomes, sleeps, offset,
                                   discarded>>
               ELSE /\ offset' = NextOffset(offset)
                    /\ EnterWrapper("get_matches_from_url", ScraperMaxRetries,
                                    ScraperWaitTime)
                    /\ discarded' = << >>
                    /\ UNCHANGED <<gpc, crawlRet, log>>
    /\ UNCHANGED <<logger, siteVars, this_page_matches, fetchLog, statsVars, filterVars,
                   runVars>>

\* get_match_urls is entered (lines 198-201) and makes its first wrapped call.
InitCrawl ==
    /\ RunOff
    /\ StatsOff
    /\ FilterOff
    /\ totalRows \in 0..MaxTotal
    /\ faults = 0
    /\ searchBlocked = FALSE
    /\ gpc = "fetch"
    /\ offset = 0
    /\ matches = << >>
    /\ this_page_matches = << >>
    /\ discarded = << >>
    /\ fetchLog = << >>
    /\ pageSizes = << >>
    /\ crawlRet = None
    /\ func = "get_matches_from_url"
    /\ max_retries = ScraperMaxRetries
    /\ exponential_wait_time = ScraperWaitTime
    /\ logger = TRUE
    /\ retry_count = 0
    /\ wstate = "loop"
    /\ ret = None
    /\ outcomes = << >>
    /\ sleeps = << >>
    /\ log = <<InfoEntry("Getting matches")>>

NextCrawl == FetchReturns \/ FetchRaises \/ FetchExhausts \/ LoopStep

SpecCrawl == InitCrawl /\ [][NextCrawl]_vars

\* FairCrawl: get_match_urls on the histories that end on, or one row after,
\* every fiftieth row.  The program is one thread that runs until
\* get_match_urls is over: a step that can be taken is taken.
TerminationHistories == {n \in 0..MaxTotal : n % 50 \in {0, 1}}

InitFairCrawl == InitCrawl /\ totalRows \in TerminationHistories

FairCrawl == InitFairCrawl /\ [][NextCrawl]_vars /\ WF_vars(NextCrawl)

(***************************************************************************)
(* HLTV_Player_Stat_Scraper.get_basic_stats                                *)
(* A dict is [t |-> "dict", v |-> f], f a function on the dict's keys.  The *)
(* text of an element is the sequence of its lines.                        *)
(***************************************************************************)
Dict(f) == [t |-> "dict", v |-> f]

\* The keys of selector_paths, in the order of the dict display.
StatKeys == <<"rt", "t_side_rt", "ct_side_rt", "round_swing", "dpr", "kast",
              "multi_kill", "adr", "kpr">>

StatFields == {StatKeys[i] : i \in 1..Len(StatKeys)}

\* `.text.split("\n")[0]`
FirstLine(text) == text[1]

\* visualize_player_stats(stats): the f-string subscripts stats with each of
\* the nine keys; a missing key is a KeyError.
VisualizePlayerStats(stats) ==
    IF StatFields \subseteq DOMAIN stats THEN "report" ELSE "KeyError"

\* Faulty variant: a locator that does not resolve is skipped and whatever was
\* read is returned, the report not being built.
GetBasicStatsLenient(page, missing, navExc) ==
    IF navExc # ""
    THEN [kind |-> "raise", exc |-> navExc, val |-> None, flog |-> << >>]
    ELSE [kind |-> "return", exc |-> "",
          val |-> Dict([k \in StatFields \ missing |-> FirstLine(page[k])]),
          flog |-> <<InfoEntry("Getting basic stats"),
                     InfoEntry("Basic stats retrieved")>>]

\* One invocation of get_basic_stats on the stats page `page`, the locators
\* in `missing` not resolving and driver.get raising navExc (unless "").
\* The dict comprehension reads the keys in order and the first locator that
\* does not resolve raises NoSuchElementException out of it.
GetBasicStats(page, missing, navExc) ==
    LET bad == {i \in 1..Len(StatKeys) : StatKeys[i] \in missing}
        read == IF bad = {} THEN StatFields
                ELSE {StatKeys[j] : j \in 1..(Least(bad) - 1)}
        stats == [k \in read |-> FirstLine(page[k])]
    IN  IF navExc # ""
        THEN [kind |-> "raise", exc |-> navExc, val |-> None, flog |-> << >>]
        ELSE IF bad # {}
        THEN [kind |-> "raise", exc |-> "NoSuchElementException", val |-> None,
              flog |-> <<InfoEntry("Getting basic stats")>>]
        ELSE IF VisualizePlayerStats(stats) = "KeyError"
        THEN [kind |-> "raise", exc |-> "KeyError", val |-> None,
              flog |-> <<InfoEntry("Getting basic stats")>>]
        ELSE [kind |-> "return", exc |-> "", val |-> Dict(stats),
              flog |-> <<InfoEntry("Getting basic stats"),
                         InfoEntry("Basic stats retrieved")>>]

\* The stats pages of the model: every stat reads "1.07", and the elements
\* of the first n fields, n <= MaxMultiline, carry a second line.
StatPages ==
    { [k \in StatFields |->
          IF \E i \in 1..n : StatKeys[i] = k THEN <<"1.07", "+2.3%">> ELSE <<"1.07">>] :
        n \in 0..MaxMultiline }

\* The sets of locators that fail together at one invocation: every set of
\* at most MaxUnresolved fields, and all nine (the page is not the stats page).
UnresolvedSets ==
    {m \in SUBSET StatFields : m # {} /\ Cardinality(m) <= MaxUnresolved}
        \cup {StatFields}

\* One invocation of get_basic_stats, the locators in `missing` not resolving.
StatsAttempt(missing, navExc) ==
    LET o == GetBasicStats(statPage, missing, navExc)
    IN  /\ func = "get_basic_stats"
        /\ unresolved' = missing
        /\ IF o.kind = "return"
           THEN InvokeReturns(o.val, o.flog)
           ELSE InvokeRaises(o.exc, o.flog)
        /\ UNCHANGED <<statPage, siteVars, crawlVars, filterVars, runVars>>

\* Every locator resolves.
StatsAllResolve == StatsAttempt({}, "")

\* Some locators do not resolve.
StatsSomeUnresolved == \E missing \in UnresolvedSets : StatsAttempt(missing, "")

\* driver.get raises.
StatsNavigationRaises ==
    \E exc \in {"WebDriverException", "KeyboardInterrupt"} : StatsAttempt({}, exc)

StatsExhausts ==
    /\ func = "get_basic_stats"
    /\ Exhaust
    /\ UNCHANGED <<siteVars, crawlVars, statsVars, filterVars, runVars>>

\* get_basic_stats is called on a scraper whose player is known.
InitStats ==
    /\ RunOff
    /\ ScraperOff
    /\ FilterOff
    /\ statPage \in StatPages
    /\ unresolved = {}
    /\ func = "get_basic_stats"
    /\ max_retries = ScraperMaxRetries
    /\ exponential_wait_time = ScraperWaitTime
    /\ logger = TRUE
    /\ retry_count = 0
    /\ wstate = "loop"
    /\ ret = None
    /\ outcomes = << >>
    /\ sleeps = << >>
    /\ log = << >>

NextStats == StatsAllResolve \/ StatsSomeUnresolved \/ StatsNavigationRaises
             \/ StatsExhausts

SpecStats == InitStats /\ [][NextStats]_vars

(***************************************************************************)
(* Filter (src/src/configs.py)                                             *)
(* A datetime is the proleptic Gregorian ordinal of its date (0001-01-01   *)
(* is 1), which is all that strftime("%Y-%m-%d") shows of it.  A set of    *)
(* map names is the sequence in which iterating the set yields its         *)
(* elements.                                                               *)
(***************************************************************************)
\* datetime: the (year, month, day) of ordinal n, as _ord2ymd computes it.
DaysBeforeMonth == <<0, 31, 59, 90, 120, 151, 181, 212, 243, 273, 304, 334>>
DaysInMonth == <<31, 28, 31, 30, 31, 30, 31, 31, 30, 31, 30, 31>>

Ord2Ymd(ordinal) ==
    LET n0 == ordinal - 1
        n400 == n0 \div 146097
        r400 == n0 % 146097
        n100 == r400 \div 36524
        r100 == r400 % 36524
        n4 == r100 \div 1461
        r4 == r100 % 1461
        n1 == r4 \div 365
        n == r4 % 365
        year == n400 * 400 + 1 + n100 * 100 + n4 * 4 + n1
        leapyear == n1 = 3 /\ (n4 # 24 \/ n100 = 3)
        month0 == (n + 50) \div 32
        preceding0 == DaysBeforeMonth[month0]
                      + (IF month0 > 2 /\ leapyear THEN 1 ELSE 0)
        month == IF preceding0 > n THEN month0 - 1 ELSE month0
        preceding == IF preceding0 > n
                     THEN preceding0 - (DaysInMonth[month]
                                        + (IF month = 2 /\ leapyear THEN 1 ELSE 0))
                     ELSE preceding0
    IN  IF n1 = 4 \/ n100 = 4
        THEN <<year - 1, 12, 31>>
        ELSE <<year, month, n - preceding + 1>>

Pad2(n) == IF n < 10 THEN "0" \o ToString(n) ELSE ToString(n)
Pad4(n) == IF n < 10 THEN "000" \o ToString(n)
           ELSE IF n < 100 THEN "00" \o ToString(n)
           ELSE IF n < 1000 THEN "0" \o ToString(n)
           ELSE ToString(n)

\* `.strftime("%Y-%m-%d")`.  %m and %d are two digits; %Y is the year as the
\* platform's strftime prints it, which for a year below 1000 is padded to
\* four digits on some platforms and not on others (glibc).
Strftime(ordinal) ==
    LET ymd == Ord2Ymd(ordinal)
    IN  (IF pads_year THEN Pad4(ymd[1]) ELSE ToString(ymd[1]))
        \o "-" \o Pad2(ymd[2]) \o "-" \o Pad2(ymd[3])

\* `sep.join(parts)`
RECURSIVE Join(_, _)
Join(parts, sep) ==
    IF parts = << >> THEN ""
    ELSE IF Len(parts) = 1 THEN parts[1]
    ELSE parts[1] \o sep \o Join(Tail(parts), sep)

\* `x in self.maps`
InSeq(x, seq) == \E i \in 1..Len(seq) : seq[i] = x

\* Faulty variant: a month is 30 days, so that twelve of them are 360.
QuickDaysThirtyPerMonth(q) ==
    CASE q = "Last Month" -> 30
      [] q = "Last 3 Months" -> 90
      [] q = "Last 6 Months" -> 180
      [] q = "Last 12 Months" -> 360

\* timedelta(days=...) of each shorthand of the match statement.
QuickDays(q) ==
    CASE q = "Last Month" -> 30
      [] q = "Last 3 Months" -> 90
      [] q = "Last 6 Months" -> 180
      [] q = "Last 12 Months" -> 365

\* Faulty variant: a shorthand replaces the end of the range only.
FilterInitKeepsCallerStart(quick_time_filter, start_date, end_date, match_type, cs_version, maps, ranking, now1, now2) ==
    [ quick_time_filter |-> quick_time_filter,
      start_date |-> start_date,
      end_date |-> IF quick_time_filter = None THEN end_date ELSE now2,
      match_type |-> match_type,
      cs_version |-> cs_version,
      maps |-> maps,
      ranking |-> ranking ]

\* Filter.__init__.  now1 and now2 are the dates of the datetime.now() calls
\* that set start_date and end_date.
FilterInit(quick_time_filter, start_date, end_date, match_type, cs_version, maps, ranking, now1, now2) ==
    [ quick_time_filter |-> quick_time_filter,
      start_date |-> IF quick_time_filter = None THEN start_date
                     ELSE IF quick_time_filter = Str("All") THEN DateMin
                     ELSE now1 - QuickDays(quick_time_filter.v),
      end_date |-> IF quick_time_filter = None THEN end_date ELSE now2,
      match_type |-> match_type,
      cs_version |-> cs_version,
      maps |-> maps,
      ranking |-> ranking ]

\* Faulty variant: the match type is put in the query whatever it is.
FilterQueryAlwaysMatchType(f) ==
    (IF f.quick_time_filter # Str("All")
     THEN << <<"startDate", Strftime(f.start_date)>>,
             <<"endDate", Strftime(f.end_date)>> >>
     ELSE << >>)
    \o << <<"matchType", f.match_type>> >>
    \o (IF f.cs_version # "All" THEN << <<"csVersion", f.cs_version>> >> ELSE << >>)
    \o (IF ~InSeq("All", f.maps) THEN << <<"maps", Join(f.maps, "&")>> >> ELSE << >>)
    \o (IF f.ranking # "All" THEN << <<"rankingFilter", f.ranking>> >> ELSE << >>)

\* The dict `query` of Filter.__str__, as the sequence of its items: a dict
\* keeps its keys in insertion order.
FilterQuery(f) ==
    (IF f.quick_time_filter # Str("All")
     THEN << <<"startDate", Strftime(f.start_date)>>,
             <<"endDate", Strftime(f.end_date)>> >>
     ELSE << >>)
    \o (IF f.match_type # "All" THEN << <<"matchType", f.match_type>> >> ELSE << >>)
    \o (IF f.cs_version # "All" THEN << <<"csVersion", f.cs_version>> >> ELSE << >>)
    \o (IF ~InSeq("All", f.maps) THEN << <<"maps", Join(f.maps, "&")>> >> ELSE << >>)
    \o (IF f.ranking # "All" THEN << <<"rankingFilter", f.ranking>> >> ELSE << >>)

\* `"&".join([f"{key}={value}" for key, value in query.items()])`
FilterQueryString(q) ==
    Join([i \in 1..Len(q) |-> q[i][1] \o "=" \o q[i][2]], "&")

\* Arguments the model passes to Filter(...).
QuickTimeFilters == {None, Str("All"), Str("Last Month"), Str("Last 3 Months"),
                     Str("Last 6 Months"), Str("Last 12 Months")}
StartDates == {DateMin, ClockStart - 260}
EndDates == {DateMax, ClockStart - 10}
MatchTypes == {"All", "Majors", "Online"}
CsVersions == {"All", "CSGO", "CS2"}
MapSets == { <<"All">>, << >>, <<"de_dust2">>, <<"de_dust2", "de_nuke">>,
             <<"de_nuke", "de_dust2">>, <<"All", "de_dust2">> }
Rankings == {"All", "Top5", "Top50"}

\* Filter(...) is constructed.  Midnight may pass between the two
\* datetime.now() calls of a shorthand other than "All".
FilterConstruct ==
    /\ fpc = "new"
    /\ \E q \in QuickTimeFilters, sd \in StartDates, ed \in EndDates,
          mt \in MatchTypes, cv \in CsVersions, ms \in MapSets, rk \in Rankings,
          midnight \in BOOLEAN :
          /\ midnight => (q \notin {None, Str("All")} /\ now < ClockStart + MaxTicks)
          /\ now' = IF midnight THEN now + 1 ELSE now
          /\ filter' = FilterInit(q, sd, ed, mt, cv, ms, rk, now, now')
          /\ fargs' = [start_date |-> sd, end_date |-> ed, now1 |-> now, now2 |-> now']
    /\ fpc' = "built"
    /\ UNCHANGED <<query, query_string, pads_year, wrapperVars, siteVars, crawlVars,
                   statsVars, runVars>>

\* Midnight passes.
FilterTick ==
    /\ fpc \in {"new", "built"}
    /\ now < ClockStart + MaxTicks
    /\ now' = now + 1
    /\ UNCHANGED <<fpc, filter, query, query_string, pads_year, fargs, wrapperVars,
                   siteVars, crawlVars, statsVars, runVars>>

\* str(filter)
FilterStr ==
    /\ fpc = "built"
    /\ query' = FilterQuery(filter)
    /\ query_string' = FilterQueryString(query')
    /\ fpc' = "formatted"
    /\ UNCHANGED <<now, filter, pads_year, fargs, wrapperVars, siteVars, crawlVars,
                   statsVars, runVars>>

InitFilter ==
    /\ RunOff
    /\ ScraperOff
    /\ StatsOff
    /\ now = ClockStart
    /\ fpc = "new"
    /\ filter = None
    /\ query = << >>
    /\ query_string = ""
    /\ pads_year \in BOOLEAN
    /\ fargs = None
    /\ func = "none"
    /\ max_retries = 0
    /\ exponential_wait_time = 0
    /\ logger = FALSE
    /\ retry_count = 0
    /\ wstate = "idle"
    /\ ret = None
    /\ outcomes = << >>
    /\ sleeps = << >>
    /\ log = << >>

NextFilter == FilterConstruct \/ FilterTick \/ FilterStr

SpecFilter == InitFilter /\ [][NextFilter]_vars

(***************************************************************************)
(* Properties of the wrapper, checked under SpecRetry.                     *)
(***************************************************************************)
\* The call through the wrapper is over (it returned or let an exception out).
CallOver == wstate \in {"returned", "raised"}

\* Invocation i of func raised an exception the except clause handles.
FailedAt(i) == outcomes[i].kind = "raise" /\ outcomes[i].val.v \in ExceptionClasses

\* Every invocation made so far failed.
AllFailed == \A i \in 1..Len(outcomes) : FailedAt(i)

\* The call ended on the exhaustion path: the loop test failed and None came back.
Exhausted == wstate = "returned" /\ ret = None /\ AllFailed
             /\ Len(outcomes) = max_retries

EscalationLogged == \E i \in 1..Len(log) : log[i].level = "error"

\* C2 (as claimed): with max_retries = 0 a call through the wrapper invokes
\* the wrapped operation exactly once.
C2_Claimed == (max_retries = 0 /\ CallOver) => Len(outcomes) = 1

\* C2 (amended): with max_retries = 0 a call through the wrapper never
\* invokes the wrapped operation; it performs no sleep and returns None,
\* logging the escalation when it has a logger.
C2_ZeroRetries ==
    (max_retries = 0 /\ CallOver) =>
        /\ outcomes = << >>
        /\ sleeps = << >>
        /\ wstate = "returned"
        /\ ret = None
        /\ log = (IF logger THEN EscalationEntries ELSE << >>)

C2_Witness == max_retries = 0 /\ CallOver

\* C3: an operation that fails (with an exception the wrapper's except clause
\* handles) on every invocation is invoked exactly max_retries times, the
\* sleeps are exponential_wait_time * 2^0, ..., * 2^(max_retries - 1) in that
\* order, and the call then yields the exhausted result None.
C3_AlwaysFailing ==
    AllFailed =>
        /\ Len(outcomes) <= max_retries
        /\ sleeps = [i \in 1..Len(outcomes) |-> exponential_wait_time * 2 ^ (i - 1)]
        /\ wstate # "raised"
        /\ (wstate = "loop" /\ Len(outcomes) = max_retries => ENABLED Exhaust)
        /\ (wstate = "loop" /\ Len(outcomes) < max_retries => ~ENABLED Exhaust)
        /\ (wstate = "returned" => Len(outcomes) = max_retries /\ ret = None)

C3_Witness == Exhausted /\ max_retries >= 3 /\ exponential_wait_time >= 2

\* C4: when the operation first succeeds on attempt k (0-based), the wrapper
\* returns that attempt's result, the successful attempt is the last
\* invocation of the call, and exactly k + 1 invocations and k sleeps happened.
C4_FirstSuccess ==
    \A i \in 1..Len(outcomes) :
        outcomes[i].kind = "return" =>
            /\ i - 1 < max_retries
            /\ i = Len(outcomes)
            /\ \A j \in 1..(i - 1) : FailedAt(j)
            /\ wstate = "returned"
            /\ ret = outcomes[i].val
            /\ Len(sleeps) = i - 1
            /\ retry_count = i - 1
            /\ ~CanInvoke

C4_Witness ==
    /\ Len(outcomes) = 3
    /\ outcomes[3].kind = "return"
    /\ outcomes[3].val = Str("r1")
    /\ wstate = "returned"

\* C5 (as claimed): after max_retries consecutive failures the wrapper returns
\* None and propagates nothing, whatever exception the operation raised.
C5_Claimed ==
    ( /\ CallOver
      /\ Len(outcomes) = max_retries
      /\ \A i \in 1..Len(outcomes) : outcomes[i].kind = "raise" )
    => (wstate = "returned" /\ ret = None)

\* C5 (amended): after max_retries consecutive failures, each with an
\* exception derived from Exception, the wrapper returns None; an exception
\* leaves the wrapper exactly when the operation raised one that does not
\* derive from Exception (KeyboardInterrupt, SystemExit), on the attempt that
\* raised it; the escalation entries are logged only on the exhaustion path.
C5_Exhaustion ==
    /\ (CallOver /\ AllFailed) => Exhausted
    /\ (wstate = "raised") <=>
          ( /\ outcomes # << >>
            /\ outcomes[Len(outcomes)].kind = "raise"
            /\ outcomes[Len(outcomes)].val.v \in BaseOnlyClasses )
    /\ (wstate = "raised" => ret = outcomes[Len(outcomes)].val)
    /\ (EscalationLogged => (Exhausted /\ logger))
    /\ ((Exhausted /\ logger) => EscalationLogged)

C5_Witness == Exhausted /\ max_retries = 5 /\ logger /\ EscalationLogged


(***************************************************************************)
(* Properties of get_match_urls, checked under SpecCrawl.                  *)
(***************************************************************************)
CrawlOver == gpc \in {"returned", "raised"}

\* The references of rows 1..n, in page order.
RowsUpTo(n) == [i \in 1..n |-> i]

\* Every invocation of get_matches_from_url so far was at the offsets
\* 0, 100, 200, ... in that order, one invocation per offset.
OffsetsInOrder == \A i \in 1..Len(fetchLog) : fetchLog[i] = 100 * (i - 1)

\* C1 (as claimed): when a page fetch of get_match_urls exhausts its retries,
\* get_match_urls does not raise; it returns an empty/null result.
C1_Claimed == (CrawlOver /\ EscalationLogged) => gpc = "returned"

\* C6: for a history of T = 100*q + r rows, 0 < r < 100, and no failure,
\* get_match_urls makes exactly q + 1 fetches, at offsets 0, 100, ..., 100*q
\* in order, the last being the first page of fewer than 100 references, and
\* returns all T references in page order.
C6_PartialLastPage ==
    LET q == totalRows \div 100
        r == totalRows % 100
    IN  (faults = 0 /\ r # 0) =>
            /\ OffsetsInOrder
            /\ Len(fetchLog) <= q + 1
            /\ gpc # "raised"
            /\ \A i \in 1..Len(pageSizes) : pageSizes[i] = (IF i <= q THEN 100 ELSE r)
            /\ gpc = "returned" =>
                  /\ Len(fetchLog) = q + 1
                  /\ Len(pageSizes) = q + 1
                  /\ crawlRet = List(RowsUpTo(totalRows))

C6_Witness ==
    /\ gpc = "returned"
    /\ faults = 0
    /\ totalRows = 247
    /\ fetchLog = <<0, 100, 200>>
    /\ pageSizes = <<100, 100, 47>>
    /\ Len(crawlRet.v) = 247

\* C7: for a history of T = 100*q rows, q >= 1, and no failure,
\* get_match_urls makes exactly q + 1 fetches, the last of which yields 0
\* references, and returns all T references.
C7_ExactMultiple ==
    LET q == totalRows \div 100
    IN  (faults = 0 /\ totalRows % 100 = 0 /\ q >= 1 /\ gpc = "returned") =>
            /\ OffsetsInOrder
            /\ Len(fetchLog) = q + 1
            /\ pageSizes = [i \in 1..(q + 1) |-> IF i <= q THEN 100 ELSE 0]
            /\ crawlRet = List(RowsUpTo(totalRows))

C7_Witness ==
    /\ gpc = "returned"
    /\ faults = 0
    /\ totalRows = 200
    /\ fetchLog = <<0, 100, 200>>
    /\ pageSizes = <<100, 100, 0>>

\* C8: when the history is empty and the first page fetch succeeds, it
\* yields 0 references and get_match_urls returns an empty list after that
\* one fetch (one invocation when no attempt failed).
C8_EmptyFirstPage ==
    (totalRows = 0 /\ pageSizes # << >> /\ pageSizes[1] >= 0) =>
        /\ pageSizes = <<0>>
        /\ gpc = "returned"
        /\ crawlRet = List(<< >>)
        /\ \A i \in 1..Len(fetchLog) : fetchLog[i] = 0
        /\ Len(fetchLog) = faults + 1
        /\ (faults = 0 => fetchLog = <<0>>)

C8_Witness == totalRows = 0 /\ faults = 0 /\ gpc = "returned" /\ pageSizes = <<0>>

(***************************************************************************)
(* Properties of get_basic_stats, checked under SpecStats.                 *)
(***************************************************************************)
\* C9: get_basic_stats is all-or-nothing.  Whatever subset of the locators
\* fails to resolve at each attempt, the value the caller receives is None
\* or a record holding all nine fields, each the first line of its element's
\* text; a record is returned only by an attempt at which every locator
\* resolved, and a call that lets an exception out returns no record.
C9_AllOrNothing ==
    /\ Cardinality(StatFields) = 9
    /\ ret.t \in {"None", "dict", "str"}
    /\ ret.t = "dict" =>
          /\ wstate = "returned"
          /\ DOMAIN ret.v = StatFields
          /\ \A k \in StatFields : ret.v[k] = "1.07"
          /\ unresolved = {}
    /\ ret.t = "str" => wstate = "raised"
    /\ wstate = "returned" => ret.t \in {"None", "dict"}
    /\ (wstate = "returned" /\ unresolved # {}) => (ret = None /\ Exhausted)

C9_Witness ==
    /\ wstate = "returned"
    /\ ret = None
    /\ unresolved = {"kast"}
    /\ Len(outcomes) = 5

(***************************************************************************)
(* Properties of Filter, checked under SpecFilter.                         *)
(***************************************************************************)
\* The wire keys in their fixed order.
WireKeys == <<"startDate", "endDate", "matchType", "csVersion", "maps", "rankingFilter">>

\* The criterion behind wire key k is not at its "no filter" value in f: the
\* shorthand is not "All" (time range), the match type, version or ranking is
\* not "All", the map set does not hold the wildcard "All".
Filtering(f, k) ==
    CASE k \in {"startDate", "endDate"} -> f.quick_time_filter # Str("All")
      [] k = "matchType" -> f.match_type # "All"
      [] k = "csVersion" -> f.cs_version # "All"
      [] k = "maps" -> \A i \in 1..Len(f.maps) : f.maps[i] # "All"
      [] k = "rankingFilter" -> f.ranking # "All"

\* The value the criterion behind wire key k has in f, as text.
WireValue(f, k) ==
    CASE k = "startDate" -> Strftime(f.start_date)
      [] k = "endDate" -> Strftime(f.end_date)
      [] k = "matchType" -> f.match_type
      [] k = "csVersion" -> f.cs_version
      [] k = "maps" -> Join(f.maps, "&")
      [] k = "rankingFilter" -> f.ranking

\* key=value of the first n wire keys that filter, each but the first
\* preceded by "&".
RECURSIVE WireText(_, _)
WireText(f, n) ==
    IF n = 0 THEN ""
    ELSE LET before == WireText(f, n - 1)
             k == WireKeys[n]
         IN  IF Filtering(f, k)
             THEN before \o (IF before = "" THEN "" ELSE "&") \o k \o "=" \o WireValue(f, k)
             ELSE before

AllDefault(f) ==
    /\ f.quick_time_filter = Str("All")
    /\ f.match_type = "All"
    /\ f.cs_version = "All"
    /\ f.maps = <<"All">>
    /\ f.ranking = "All"

\* C10: the formatted Filter holds exactly the criteria that are not at their
\* "no filter" default, each as key=value, joined by "&", in the order
\* startDate, endDate, matchType, csVersion, maps, rankingFilter; an
\* all-default Filter formats to "" and one with only ranking = Top5 to
\* "rankingFilter=Top5".
C10_Format ==
    fpc = "formatted" =>
        LET Emitted(k) == Filtering(filter, k)
        IN  /\ [i \in 1..Len(query) |-> query[i][1]] = SelectSeq(WireKeys, Emitted)
            /\ \A i \in 1..Len(query) : query[i][2] = WireValue(filter, query[i][1])
            /\ query_string = WireText(filter, Len(WireKeys))
            /\ AllDefault(filter) => query_string = ""
            /\ AllDefault([filter EXCEPT !.ranking = "All"]) /\ filter.ranking = "Top5"
                  => query_string = "rankingFilter=Top5"

C10_Witness ==
    /\ fpc = "formatted"
    /\ filter.maps = <<"de_dust2", "de_nuke">>
    /\ query_string = "startDate=2024-01-31&endDate=2024-03-01&matchType=Majors"
                      \o "&csVersion=CS2&maps=de_dust2&de_nuke&rankingFilter=Top5"

(***************************************************************************)
(* Properties of Filter that involve the order of the map names and the    *)
(* clock, checked under SpecFilter.                                        *)
(***************************************************************************)
\* The set of the elements of a sequence.
Elements(seq) == {seq[i] : i \in 1..Len(seq)}

\* str() of the Filter that differs from f only in the order in which
\* iterating its set of map names yields the names.
StrWithMapOrder(f, ms) == FilterQueryString(FilterQuery([f EXCEPT !.maps = ms]))

\* C11: the formatted query string does not depend on the order in which the
\* map names were supplied: a Filter built from the same criteria at the same
\* time with the same set of map names, whatever the order in which its set
\* yields them, formats to the string this Filter formatted to.
C11_Claimed ==
    fpc = "formatted" =>
        \A ms \in MapSets :
            Elements(ms) = Elements(filter.maps) =>
                StrWithMapOrder(filter, ms) = query_string

\* The Filter that Filter(...) would have built from the caller's dates sd and
\* ed, everything else (criteria, clock readings) as in the call that was made.
FilterWithDates(sd, ed) == FilterInit(filter.quick_time_filter, sd, ed, filter.match_type, filter.cs_version, filter.maps, filter.ranking, fargs.now1, fargs.now2)

\* The values of the startDate and endDate items of the dict `query`.
EmittedDates == {query[i][2] : i \in {j \in 1..Len(query) : query[j][1] \in {"startDate", "endDate"}}}

\* C12: a shorthand that is present overrides the caller's start_date and
\* end_date: the stored range is computed from the clock readings of the
\* construction and is the same whatever dates the caller passed.  Only when
\* the shorthand is None are the caller's dates stored, and they are then
\* emitted as startDate and endDate.
C12_Override ==
    fpc \in {"built", "formatted"} =>
        LET q == filter.quick_time_filter
        IN  /\ q # None =>
                /\ \A sd \in StartDates, ed \in EndDates : FilterWithDates(sd, ed) = filter
                /\ filter.end_date = fargs.now2
                /\ filter.start_date = IF q = Str("All") THEN DateMin
                                       ELSE fargs.now1 - QuickDays(q.v)
                /\ fpc = "formatted" /\ q # Str("All") =>
                       EmittedDates = {Strftime(filter.start_date), Strftime(fargs.now2)}
                /\ fpc = "formatted" /\ q = Str("All") => EmittedDates = {}
            /\ q = None =>
                /\ filter.start_date = fargs.start_date
                /\ filter.end_date = fargs.end_date
                /\ fpc = "formatted" =>
                       /\ Len(query) >= 2
                       /\ query[1] = <<"startDate", Strftime(fargs.start_date)>>
                       /\ query[2] = <<"endDate", Strftime(fargs.end_date)>>

\* A Filter built with a shorthand and with dates of the caller's that are not
\* the shorthand's has been formatted, and the caller's end date is not in it.
C12_Witness ==
    /\ fpc = "formatted"
    /\ filter.quick_time_filter = Str("Last 3 Months")
    /\ fargs.start_date = ClockStart - 260
    /\ fargs.end_date = ClockStart - 10
    /\ filter.start_date = fargs.now1 - 90
    /\ Strftime(fargs.end_date) \notin EmittedDates
    /\ Len(query) >= 2

\* The shorthands that name a number of months, and the days the
\* specification gives each.
MonthShorthands == {Str("Last Month"), Str("Last 3 Months"), Str("Last 6 Months"), Str("Last 12 Months")}

WindowDays(q) ==
    CASE q = Str("Last Month") -> 30
      [] q = Str("Last 3 Months") -> 90
      [] q = Str("Last 6 Months") -> 180
      [] q = Str("Last 12 Months") -> 365

\* A Filter with a month shorthand has been formatted.
MonthFilterFormatted == fpc = "formatted" /\ filter.quick_time_filter \in MonthShorthands

\* C13 as stated: whenever a Filter with the shorthand 'Last Month' (Last 3, 6,
\* 12 Months) is constructed and formatted, endDate is the current date and
\* startDate is the date 30 (90, 180, 365) days before it.
C13_Claimed ==
    MonthFilterFormatted =>
        /\ Len(query) >= 2
        /\ query[2] = <<"endDate", Strftime(now)>>
        /\ query[1] = <<"startDate", Strftime(now - WindowDays(filter.quick_time_filter))>>

\* C13 amended: endDate is the date of the second datetime.now() of the
\* construction, which is the current date or an earlier one when the Filter
\* is formatted; startDate is the date 30 (90, 180, 365) days before the first
\* datetime.now(), so the two dates are that many days apart, or one day more
\* when midnight passed between the two readings.
C13_Window ==
    MonthFilterFormatted =>
        LET days == WindowDays(filter.quick_time_filter)
        IN  /\ Len(query) >= 2
            /\ query[2] = <<"endDate", Strftime(fargs.now2)>>
            /\ query[1] = <<"startDate", Strftime(fargs.now1 - days)>>
            /\ fargs.now2 <= now
            /\ fargs.now2 - fargs.now1 \in {0, 1}
            /\ filter.end_date - filter.start_date \in {days, days + 1}

\* 'Last Month' constructed across midnight and formatted after another one:
\* the dates are 31 days apart and endDate is yesterday's.
C13_Witness ==
    /\ MonthFilterFormatted
    /\ filter.quick_time_filter = Str("Last Month")
    /\ filter.end_date - filter.start_date = 31
    /\ now = fargs.now2 + 1
    /\ query[2][2] # Strftime(now)

(***************************************************************************)
(* The scraper object: __init__, _get_driver, search_player and            *)
(* parse_player_website.  A URL is the sequence of its characters, so that *)
(* lstrip and split work on it as they do on a str; names and ids are      *)
(* strings.                                                                *)
(***************************************************************************)
\* ScraperConfig.BASE_URL and the '/player/' appended to it at line 127.
BaseUrl == <<"h", "t", "t", "p", "s", ":", "/", "/", "w", "w", "w", ".", "h", "l", "t", "v", ".", "o", "r", "g">>
PlayerPath == <<"/", "p", "l", "a", "y", "e", "r", "/">>

\* The str of a sequence of characters.
RECURSIVE Text(_)
Text(chars) == IF chars = << >> THEN "" ELSE chars[1] \o Text(Tail(chars))

\* `s.lstrip(chars)`: the leading characters of s that are in chars are dropped.
Lstrip(s, chars) ==
    LET keep == {i \in 1..Len(s) : s[i] \notin chars}
    IN  IF keep = {} THEN << >> ELSE SubSeq(s, Least(keep), Len(s))

\* `s.split(sep)`
RECURSIVE Split(_, _)
Split(s, sep) ==
    LET at == {i \in 1..Len(s) : s[i] = sep}
    IN  IF at = {} THEN <<s>>
        ELSE <<SubSeq(s, 1, Least(at) - 1)>> \o Split(SubSeq(s, Least(at) + 1, Len(s)), sep)

\* Faulty variant: the slug is stored as the id as well.
ParsePlayerWebsiteSlugAsId(url) ==
    LET parts == Split(Lstrip(url, Elements(BaseUrl \o PlayerPath)), "/")
    IN  IF Len(parts) = 2
        THEN [kind |-> "return", player_id |-> Str(Text(parts[2])),
              player_name |-> Str(Text(parts[2]))]
        ELSE [kind |-> "raise", exc |-> "ValueError"]

\* parse_player_website(player_url): the id and the name it stores, or the
\* ValueError of unpacking a split that has not exactly two parts.
ParsePlayerWebsite(url) ==
    LET parts == Split(Lstrip(url, Elements(BaseUrl \o PlayerPath)), "/")
    IN  IF Len(parts) = 2
        THEN [kind |-> "return", player_id |-> Str(Text(parts[1])),
              player_name |-> Str(Text(parts[2]))]
        ELSE [kind |-> "raise", exc |-> "ValueError"]

\* The site: what the element of search_selector_path is on the search page
\* of a name.  "href": a link to a player or, when only a team matches, to the
\* team; "norow": there is no such element.
PlayerUrl(id, slug) == BaseUrl \o PlayerPath \o id \o <<"/">> \o slug
NikoUrl == PlayerUrl(<<"3", "7", "4", "1">>, <<"n", "i", "k", "o">>)
ZywooUrl == PlayerUrl(<<"1", "1", "8", "9", "3">>, <<"z", "y", "w", "o", "o">>)
SimpleUrl == PlayerUrl(<<"7", "9", "9", "8">>, <<"s", "1", "m", "p", "l", "e">>)
TeamUrl == BaseUrl \o <<"/", "t", "e", "a", "m", "/", "4", "6", "0", "8", "/", "n", "a", "v", "i">>

SearchPage(name) ==
    CASE name \in {"NiKo", "niko"} -> [kind |-> "href", url |-> NikoUrl]
      [] name \in {"ZywOo", "zywoo"} -> [kind |-> "href", url |-> ZywooUrl]
      [] name = "s1mple" -> [kind |-> "href", url |-> SimpleUrl]
      [] name = "navi" -> [kind |-> "href", url |-> TeamUrl]
      [] OTHER -> [kind |-> "norow", url |-> << >>]

ErrorEntry(m) == [level |-> "error", msg |-> m]

\* Faulty variant: the argument wins over the stored name.
QueryNameArgumentFirst(arg, stored) == IF arg # None THEN arg ELSE stored

\* `player_name if self.player_name is None else self.player_name`
QueryName(arg, stored) == IF stored = None THEN arg ELSE stored

\* search_player with the name it queries stored on the scraper at line 101
\* (the faulty `self.player_name = ...`): an invocation that finds no URL
\* leaves the queried name behind.
SearchPlayerStoresQueriedName(arg, id, stored, navExc, nohref) ==
    LET name == QueryName(arg, stored)
        page == IF searchBlocked THEN [kind |-> "norow", url |-> << >>]
                ELSE SearchPage(name.v)
        same == [player_id |-> id, player_name |-> name, name |-> name]
    IN  IF navExc # ""
        THEN [kind |-> "raise", exc |-> navExc, val |-> None, flog |-> << >>] @@ same
        ELSE IF page.kind = "norow"
        THEN [kind |-> "raise", exc |-> "NoSuchElementException", val |-> None,
              flog |-> << >>] @@ same
        ELSE IF nohref
        THEN [kind |-> "return", exc |-> "", val |-> None,
              flog |-> <<ErrorEntry("Player not found")>>] @@ same
        ELSE LET parsed == ParsePlayerWebsite(page.url)
             IN  IF parsed.kind = "raise"
                 THEN [kind |-> "raise", exc |-> parsed.exc, val |-> None,
                       flog |-> <<InfoEntry("Found player"), InfoEntry("Parsing player")>>]
                      @@ same
                 ELSE [kind |-> "return", exc |-> "", val |-> Str(page.url),
                       flog |-> <<InfoEntry("Found player"), InfoEntry("Parsing player"),
                                  InfoEntry("Player ID, Player Name")>>,
                       player_id |-> parsed.player_id,
                       player_name |-> parsed.player_name, name |-> name]

\* One invocation of search_player's body with argument arg on a scraper
\* whose stored identity is (id, stored).  navExc is the exception driver.get
\* raises ("" for none); nohref says that the element found has no href
\* attribute; a site that blocks the search shows a page without the element.  The result says how the invocation ends, what it logged and
\* the identity the scraper holds afterwards.
SearchPlayer(arg, id, stored, navExc, nohref) ==
    LET name == QueryName(arg, stored)
        page == IF searchBlocked THEN [kind |-> "norow", url |-> << >>]
                ELSE SearchPage(name.v)
        same == [player_id |-> id, player_name |-> stored, name |-> name]
    IN  IF navExc # ""
        THEN [kind |-> "raise", exc |-> navExc, val |-> None, flog |-> << >>] @@ same
        ELSE IF page.kind = "norow"
        THEN [kind |-> "raise", exc |-> "NoSuchElementException", val |-> None,
              flog |-> << >>] @@ same
        ELSE IF nohref
        THEN [kind |-> "return", exc |-> "", val |-> None,
              flog |-> <<ErrorEntry("Player not found")>>] @@ same
        ELSE LET parsed == ParsePlayerWebsite(page.url)
             IN  IF parsed.kind = "raise"
                 THEN [kind |-> "raise", exc |-> parsed.exc, val |-> None,
                       flog |-> <<InfoEntry("Found player"), InfoEntry("Parsing player")>>]
                      @@ same
                 ELSE [kind |-> "return", exc |-> "", val |-> Str(page.url),
                       flog |-> <<InfoEntry("Found player"), InfoEntry("Parsing player"),
                                  InfoEntry("Player ID, Player Name")>>,
                       player_id |-> parsed.player_id,
                       player_name |-> parsed.player_name, name |-> name]

\* One pass of the wrapper's loop body around search_player.
SearchAttempt(navExc, nohref) ==
    LET o == SearchPlayer(searchArg, player_id, player_name, navExc, nohref)
    IN  /\ func = "search_player"
        /\ queried' = Append(queried, [arg |-> searchArg, stored |-> player_name,
                                       name |-> o.name, val |-> o.val, call |-> calls])
        /\ player_id' = o.player_id
        /\ player_name' = o.player_name
        /\ IF o.kind = "return"
           THEN InvokeReturns(o.val, o.flog)
           ELSE InvokeRaises(o.exc, o.flog)
        /\ UNCHANGED <<mpc, acquired, released, searchArg, calls, player_url, totalRows,
                       searchBlocked, crawlVars, statsVars, filterVars>>

\* The search page loads and its first result, if there is one, has an href.
SearchLoads == SearchAttempt("", FALSE) /\ UNCHANGED faults

\* The search page loads and the element found carries no href.
SearchNoHref == SearchAttempt("", TRUE) /\ UNCHANGED faults

\* driver.get raises.
SearchNavigationRaises ==
    /\ faults < MaxSearchFaults
    /\ faults' = faults + 1
    /\ \E exc \in {"WebDriverException", "KeyboardInterrupt"} : SearchAttempt(exc, FALSE)

SearchExhausts ==
    /\ func = "search_player"
    /\ Exhaust
    /\ UNCHANGED <<siteVars, crawlVars, statsVars, filterVars, runVars>>

\* __init__ (with _get_driver) of a scraper built with the given name and id:
\* one driver handle is started and the identity stored.
ScraperInit(name, id) ==
    /\ acquired' = acquired + 1
    /\ player_name' = name
    /\ player_id' = id
    /\ logger' = TRUE
    /\ log' = log \o <<InfoEntry("Driver initialized"),
                       InfoEntry("HLTV_Player_Stat_Scraper initialized")>>

(***************************************************************************)
(* SpecSearch: code that builds a scraper, with or without a player name,  *)
(* and calls search_player on it up to MaxSearchCalls times.               *)
(***************************************************************************)
SearchArgs == {Str("NiKo"), Str("ZywOo"), Str("navi"), Str("nobody")}
ConstructorNames == {None, Str("s1mple")}

\* HLTV_Player_Stat_Scraper(player_name=name)
ClientConstructs ==
    /\ mpc = "client_new"
    /\ \E name \in ConstructorNames : ScraperInit(name, None)
    /\ mpc' = "client"
    /\ UNCHANGED <<func, max_retries, exponential_wait_time, retry_count, wstate, ret,
                   outcomes, sleeps, released, searchArg, queried, calls, player_url,
                   siteVars, crawlVars, statsVars, filterVars>>

\* scraper.search_player(arg), the previous call, if any, having returned.
ClientCalls ==
    /\ mpc = "client"
    /\ wstate \in {"idle", "returned"}
    /\ calls < MaxSearchCalls
    /\ \E arg \in SearchArgs : searchArg' = arg
    /\ calls' = calls + 1
    /\ EnterWrapper("search_player", ScraperMaxRetries, ScraperWaitTime)
    /\ UNCHANGED <<logger, log, mpc, acquired, released, player_name, player_id, queried,
                   player_url, siteVars, crawlVars, statsVars, filterVars>>

InitSearch ==
    /\ totalRows = 0
    /\ faults = 0
    /\ searchBlocked \in BOOLEAN
    /\ gpc = "off"
    /\ offset = 0
    /\ matches = << >>
    /\ this_page_matches = << >>
    /\ discarded = << >>
    /\ fetchLog = << >>
    /\ pageSizes = << >>
    /\ crawlRet = None
    /\ StatsOff
    /\ FilterOff
    /\ mpc = "client_new"
    /\ acquired = 0
    /\ released = 0
    /\ player_name = None
    /\ player_id = None
    /\ searchArg = None
    /\ queried = << >>
    /\ calls = 0
    /\ player_url = None
    /\ func = "none"
    /\ max_retries = 0
    /\ exponential_wait_time = 0
    /\ logger = FALSE
    /\ retry_count = 0
    /\ wstate = "idle"
    /\ ret = None
    /\ outcomes = << >>
    /\ sleeps = << >>
    /\ log = << >>

NextSearch == ClientConstructs \/ ClientCalls \/ SearchLoads \/ SearchNoHref
              \/ SearchNavigationRaises \/ SearchExhausts

SpecSearch == InitSearch /\ [][NextSearch]_vars

(***************************************************************************)
(* SpecRun: main() of src/src/player.py, from the construction of the      *)
(* scraper to the return of main or the exception that leaves it.          *)
(***************************************************************************)
\* Match histories of the player main() looks up.
RunHistories == {0, 105}

\* Lines 244-246: the scraper is built and search_player('NiKo') called.
MainStarts ==
    /\ mpc = "main_new"
    /\ ScraperInit(None, None)
    /\ searchArg' = Str("NiKo")
    /\ calls' = calls + 1
    /\ EnterWrapper("search_player", ScraperMaxRetries, ScraperWaitTime)
    /\ mpc' = "search"
    /\ UNCHANGED <<released, queried, player_url, siteVars, crawlVars, statsVars,
                   filterVars>>

\* Line 244 when uc.Chrome(options=options) raises: no scraper comes to be.
MainDriverFails ==
    /\ mpc = "main_new"
    /\ mpc' = "raised"
    /\ UNCHANGED <<wrapperVars, acquired, released, player_name, player_id, searchArg,
                   queried, calls, player_url, siteVars, crawlVars, statsVars, filterVars>>

\* Lines 246-252, from the moment search_player is over to the call of
\* get_basic_stats: the test of player_url, parse_player_website, the call.
MainAfterSearch ==
    /\ mpc = "search"
    /\ func = "search_player"
    /\ CallOver
    /\ IF wstate = "raised"
       THEN /\ mpc' = "raised"
            /\ UNCHANGED <<wrapperVars, player_name, player_id, player_url>>
       ELSE /\ player_url' = ret
            /\ IF ret = None
               THEN \* print("Player not found"); return
                    /\ mpc' = "done"
                    /\ UNCHANGED <<wrapperVars, player_name, player_id>>
               ELSE LET parsed == ParsePlayerWebsite(ret.v)
                    IN  IF parsed.kind = "raise"
                        THEN /\ mpc' = "raised"
                             /\ log' = Append(log, InfoEntry("Parsing player"))
                             /\ UNCHANGED <<func, max_retries, exponential_wait_time,
                                            logger, retry_count, wstate, ret, outcomes,
                                            sleeps, player_name, player_id>>
                        ELSE /\ player_id' = parsed.player_id
                             /\ player_name' = parsed.player_name
                             /\ log' = log \o <<InfoEntry("Parsing player"),
                                                InfoEntry("Player ID, Player Name")>>
                             /\ EnterWrapper("get_basic_stats", ScraperMaxRetries,
                                             ScraperWaitTime)
                             /\ mpc' = "stats"
                             /\ UNCHANGED logger
    /\ UNCHANGED <<acquired, released, searchArg, queried, calls, siteVars, crawlVars,
                   statsVars, filterVars>>

\* Lines 252-258, from the moment get_basic_stats is over to the first
\* wrapped call of get_match_urls (lines 198-201 and 220).
MainAfterStats ==
    /\ mpc = "stats"
    /\ func = "get_basic_stats"
    /\ CallOver
    /\ IF wstate = "raised"
       THEN /\ mpc' = "raised"
            /\ UNCHANGED <<wrapperVars, crawlVars>>
       ELSE /\ mpc' = "matches"
            /\ gpc' = "fetch"
            /\ offset' = 0
            /\ matches' = << >>
            /\ log' = Append(log, InfoEntry("Getting matches"))
            /\ EnterWrapper("get_matches_from_url", ScraperMaxRetries, ScraperWaitTime)
            /\ UNCHANGED <<logger, this_page_matches, discarded, fetchLog, pageSizes,
                           crawlRet>>
    /\ UNCHANGED <<acquired, released, player_name, player_id, searchArg, queried, calls,
                   player_url, siteVars, statsVars, filterVars>>

\* Lines 258-263: get_match_urls is over and main returns, or the exception
\* get_match_urls raised leaves main.
MainEnds ==
    /\ mpc = "matches"
    /\ gpc \in {"returned", "raised"}
    /\ mpc' = IF gpc = "returned" THEN "done" ELSE "raised"
    /\ UNCHANGED <<wrapperVars, acquired, released, player_name, player_id, searchArg,
                   queried, calls, player_url, siteVars, crawlVars, statsVars, filterVars>>

InitRun ==
    /\ FilterOff
    /\ totalRows \in RunHistories
    /\ faults = 0
    /\ searchBlocked \in BOOLEAN
    /\ gpc = "off"
    /\ offset = 0
    /\ matches = << >>
    /\ this_page_matches = << >>
    /\ discarded = << >>
    /\ fetchLog = << >>
    /\ pageSizes = << >>
    /\ crawlRet = None
    /\ statPage \in StatPages
    /\ unresolved = {}
    /\ mpc = "main_new"
    /\ acquired = 0
    /\ released = 0
    /\ player_name = None
    /\ player_id = None
    /\ searchArg = None
    /\ queried = << >>
    /\ calls = 0
    /\ player_url = None
    /\ func = "none"
    /\ max_retries = 0
    /\ exponential_wait_time = 0
    /\ logger = FALSE
    /\ retry_count = 0
    /\ wstate = "idle"
    /\ ret = None
    /\ outcomes = << >>
    /\ sleeps = << >>
    /\ log = << >>

\* The locators of the stats page fail one by one in SpecStats; here the
\* stats page loads or driver.get raises.
NextRun == MainStarts \/ MainDriverFails \/ SearchLoads \/ SearchNoHref
           \/ SearchNavigationRaises \/ SearchExhausts \/ MainAfterSearch
           \/ StatsAllResolve \/ StatsNavigationRaises \/ StatsExhausts
           \/ MainAfterStats \/ FetchReturns \/ FetchRaises \/ FetchExhausts
           \/ LoopStep \/ MainEnds

SpecRun == InitRun /\ [][NextRun]_vars

(***************************************************************************)
(* Properties of the scraper object, checked under SpecRun and SpecSearch. *)
(***************************************************************************)
\* main() is over: it returned or an exception left it.
RunOver == mpc \in {"done", "raised"}

\* C14: a scraper that was built acquired exactly one driver handle, and when
\* the run is over (main returned normally or after "Player not found", with
\* or without a retry exhaustion behind it, or an exception left it) that
\* handle has been released exactly once.
C14_Claimed == (RunOver /\ acquired > 0) => (acquired = 1 /\ released = 1)

\* The latest search_player call is over and its last invocation found an
\* element without href ("no such player").
SearchNotFound ==
    /\ func = "search_player"
    /\ wstate = "returned"
    /\ outcomes # << >>
    /\ outcomes[Len(outcomes)] = Returned(None)

\* The latest search_player call is over because every one of its
\* max_retries invocations failed.
SearchExhausted ==
    /\ func = "search_player"
    /\ wstate = "returned"
    /\ Len(outcomes) = max_retries
    /\ AllFailed

\* C15: a search_player call that finds no player and one that fails through
\* all its retries both return None, and the log entry of the first outcome
\* never has the severity of an entry of the second.
C15_Claimed ==
    /\ SearchNotFound => ret = None
    /\ SearchExhausted => ret = None
    /\ \A i, j \in 1..Len(log) :
          (log[i].msg = "Player not found" /\ log[j] \in Elements(EscalationEntries))
              => log[i].level # log[j].level

(***************************************************************************)
(* Properties of the page fetches of get_match_urls, checked under         *)
(* SpecCrawl.                                                              *)
(***************************************************************************)
\* The number of references the finished wrapped calls returned (a call that
\* returned None, recorded as -1, returned none).
RECURSIVE ReturnedCount(_)
ReturnedCount(sizes) ==
    IF sizes = << >> THEN 0
    ELSE (IF sizes[1] > 0 THEN sizes[1] ELSE 0) + ReturnedCount(Tail(sizes))

\* The rows the page at offset off shows: off+1 .. off+100, as far as the
\* history goes.
PageAt(off) ==
    LET n == IF totalRows - off >= 100 THEN 100
             ELSE IF totalRows - off <= 0 THEN 0 ELSE totalRows - off
    IN  [k \in 1..n |-> off + k]

\* C16: a page fetch is retried as a unit.  Every invocation of the current
\* wrapped call, however many failed before it and whatever rows they had
\* read, navigated to the same offset; an invocation that returns has probed
\* from row 1 and returns the whole page of that offset; the accumulator
\* holds exactly the references the finished calls returned, rows 1, 2, ... in
\* order with none twice, so nothing read by a failed attempt is in it.
C16_RetryAsUnit ==
    gpc # "off" =>
        /\ Len(fetchLog) >= Len(outcomes)
        /\ \A i \in 1..Len(outcomes) : fetchLog[Len(fetchLog) - Len(outcomes) + i] = offset
        /\ (wstate = "returned" /\ ret # None) =>
              /\ ret = List(PageAt(offset))
              /\ this_page_matches = PageAt(offset)
        /\ gpc = "fetch" => \A k \in 1..Len(discarded) : discarded[k] \notin Elements(matches)
        /\ Len(matches) = ReturnedCount(pageSizes)
        /\ matches = RowsUpTo(Len(matches))
        /\ gpc = "returned" => crawlRet = List(matches)

\* The fetch of the second page failed after it had read a row, and it has
\* been tried again, at the same offset, and returned the page.
C16_Witness ==
    /\ gpc = "fetch"
    /\ discarded = <<101>>
    /\ wstate = "returned"
    /\ offset = 100
    /\ totalRows = 105
    /\ Len(outcomes) = 2
    /\ FailedAt(1)
    /\ fetchLog = <<0, 100, 100>>
    /\ ret = List(<<101, 102, 103, 104, 105>>)
    /\ matches = RowsUpTo(100)

\* C17: an invocation of get_matches_from_url that returns has probed the
\* positions 1, 2, ... in order and stopped at the first one that does not
\* resolve, or after position 100: its value is the references of the
\* resolved positions before that one, at most 100 of them.  Ending the page
\* so is no failure: the invocation is the last of its call and adds no sleep
\* and no retry.  An invocation that does not find the results container
\* raises NoSuchElementException, which is a failure: counted and slept on.
C17_RowProbe ==
    (gpc # "off" /\ func = "get_matches_from_url") =>
        /\ (wstate = "returned" /\ ret # None) =>
              LET n == Len(ret.v)
              IN  /\ n <= 100
                  /\ \A k \in 1..n : ret.v[k] = offset + k /\ RowResolves(offset, k)
                  /\ n < 100 => ~RowResolves(offset, n + 1)
                  /\ outcomes[Len(outcomes)] = Returned(ret)
                  /\ retry_count = Len(outcomes) - 1
                  /\ Len(sleeps) = retry_count
                  /\ \A i \in 1..(Len(outcomes) - 1) : FailedAt(i)
        /\ \A i \in 1..Len(outcomes) :
              outcomes[i] = Raised("NoSuchElementException") =>
                  /\ i <= retry_count
                  /\ Len(sleeps) >= i
                  /\ sleeps[i] = SleepTime(exponential_wait_time, i - 1)

\* The results container was missing at the first attempt at the second page
\* of a history of 105 rows; the second attempt read rows 1 to 5 of the page,
\* found no sixth, and returned the five without sleeping again.
C17_Witness ==
    /\ gpc = "fetch"
    /\ totalRows = 105
    /\ offset = 100
    /\ outcomes = <<Raised("NoSuchElementException"),
                    Returned(List(<<101, 102, 103, 104, 105>>))>>
    /\ sleeps = <<ScraperWaitTime>>
    /\ wstate = "returned"

(***************************************************************************)
(* Properties of the wrapped calls of a run, checked under SpecRun.        *)
(***************************************************************************)
\* The invocations of the current wrapped call that failed.
FailedCount == Cardinality({i \in 1..Len(outcomes) : FailedAt(i)})

\* C18: the retry count and the waits belong to one wrapped call.  In every
\* wrapped call of a run (search_player, get_basic_stats, each page fetch)
\* retry_count is the number of invocations of that call that failed, so it
\* is 0 when the call starts, the waits of the call are W*2^0, W*2^1, ... in
\* that order, and the call may invoke again as long as fewer than
\* max_retries of its own invocations failed, whatever failed in the calls
\* before it.
C18_PerCall ==
    /\ retry_count = FailedCount
    /\ sleeps = [i \in 1..FailedCount |-> exponential_wait_time * 2 ^ (i - 1)]
    /\ (wstate = "loop" /\ FailedCount < max_retries) => CanInvoke
    /\ (sleeps # << >> /\ func # "none") => sleeps[1] = ScraperWaitTime

\* The fetch of the first page failed twice before it returned, and the
\* fetch of the second page has failed once: its count is 1 and its one wait
\* is W.
C18_Witness ==
    /\ mpc = "matches"
    /\ gpc = "fetch"
    /\ wstate = "loop"
    /\ fetchLog = <<0, 0, 0, 100>>
    /\ faults >= 3
    /\ retry_count = 1
    /\ sleeps = <<ScraperWaitTime>>

(***************************************************************************)
(* Termination of get_match_urls, checked under FairCrawl.                 *)
(***************************************************************************)
\* The most page fetches get_match_urls makes on a history of totalRows
\* rows: one per full page and one more.
MostPages == totalRows \div 100 + 1

\* C19: a wrapped call never invokes its operation more than max_retries
\* times; get_match_urls never makes more than max_retries invocations for
\* each of the pages of the history; and, whatever attempts fail,
\* get_match_urls comes to an end (it returns, or an exception leaves it).
C19_Terminates ==
    /\ [](Len(outcomes) <= max_retries)
    /\ [](Len(fetchLog) <= max_retries * MostPages)
    /\ <>CrawlOver

\* get_match_urls has returned the 201 references of a history of three
\* pages after the fetch of the first page had failed four times.
C19_Witness ==
    /\ gpc = "returned"
    /\ totalRows = 201
    /\ fetchLog = <<0, 0, 0, 0, 0, 100, 200>>
    /\ Len(crawlRet.v) = 201

(***************************************************************************)
(* The name search_player queries, checked under SpecSearch.               *)
(***************************************************************************)
\* C20: an invocation of search_player queries its argument when the scraper
\* holds no player name and the stored name otherwise.  A search that found a
\* player has stored the id and the slug of the URL found, so every
\* invocation after it, of the same call or of a later one, finds a stored
\* name and queries it, whatever its argument.
C20_StoredNameWins ==
    /\ \A j \in 1..Len(queried) :
          /\ queried[j].stored = None => queried[j].name = queried[j].arg
          /\ queried[j].stored # None => queried[j].name = queried[j].stored
          /\ \A i \in 1..(j - 1) :
                queried[i].val # None =>
                    /\ queried[j].stored = ParsePlayerWebsite(queried[i].val.v).player_name
                    /\ queried[j].name = queried[j].stored
    /\ (func = "search_player" /\ wstate = "returned" /\ ret # None) =>
          /\ player_name = ParsePlayerWebsite(ret.v).player_name
          /\ player_id = ParsePlayerWebsite(ret.v).player_id
          /\ player_name # None

\* search_player('NiKo') on a scraper built without a name found the player
\* and stored 3741 and niko; the next call, search_player('ZywOo'), queried
\* niko.
C20_Witness ==
    /\ Len(queried) = 2
    /\ queried[1].stored = None
    /\ queried[1].arg = Str("NiKo")
    /\ queried[1].name = Str("NiKo")
    /\ queried[1].val # None
    /\ queried[2].arg = Str("ZywOo")
    /\ queried[2].name = Str("niko")
    /\ player_id = Str("3741")
    /\ player_name = Str("niko")

(***************************************************************************)
(* The offset of get_match_urls, checked under SpecCrawl.                  *)
(***************************************************************************)
\* C21: whenever get_match_urls is fetching a page, the offset is the number
\* of references accumulated so far and a multiple of 100; every invocation
\* of get_matches_from_url was at a multiple of 100, and one at an offset
\* n > 0 was made only after the wrapped call at offset n - 100 had returned
\* exactly 100 references.
C21_OffsetIsCount ==
    /\ gpc = "fetch" =>
          /\ offset = Len(matches)
          /\ offset % 100 = 0
    /\ \A i \in 1..Len(fetchLog) :
          /\ fetchLog[i] % 100 = 0
          /\ fetchLog[i] > 0 =>
                /\ Len(pageSizes) >= fetchLog[i] \div 100
                /\ pageSizes[fetchLog[i] \div 100] = 100

\* The third page is being fetched, after a failed attempt at the second:
\* the offset is 200 and 200 references are accumulated.
C21_Witness ==
    /\ gpc = "fetch"
    /\ wstate = "loop"
    /\ fetchLog = <<0, 100, 100, 200>>
    /\ offset = 200
    /\ Len(matches) = 200
    /\ pageSizes = <<100, 100>>

(***************************************************************************)
(* The identity search_player stores, checked under SpecSearch.            *)
(***************************************************************************)
\* An invocation of search_player has just ended.
C22_AttemptStep == Len(queried') = Len(queried) + 1

\* The invocation that just ended found a URL and returned it.
C22_FoundUrl == C22_AttemptStep /\ wstate' = "returned" /\ ret' # None

\* C22: once the scraper is built, player_id and player_name are left alone
\* by every step of a search_player call except an invocation that found a
\* URL and returned it, which sets both to the two parts of that URL; so a
\* call in which every invocation failed, or which returned None for want
\* of an href, ends with the identity it started with.
C22_IdentityFrame ==
    [][ mpc = "client" =>
          /\ ~C22_FoundUrl => UNCHANGED <<player_id, player_name>>
          /\ C22_FoundUrl =>
                /\ player_id' = ParsePlayerWebsite(ret'.v).player_id
                /\ player_name' = ParsePlayerWebsite(ret'.v).player_name
                /\ player_id' # None
                /\ player_name' # None ]_vars

\* search_player('NiKo') stored 3741 and niko; in the next call driver.get
\* failed once and then the link had no href, the call returned None, and
\* the scraper still holds 3741 and niko.
C22_Witness ==
    /\ calls = 2
    /\ Len(queried) = 3
    /\ queried[1].call = 1
    /\ queried[1].val # None
    /\ queried[2].call = 2
    /\ queried[2].val = None
    /\ queried[3].call = 2
    /\ queried[3].val = None
    /\ func = "search_player"
    /\ wstate = "returned"
    /\ ret = None
    /\ player_id = Str("3741")
    /\ player_name = Str("niko")

=============================================================================
